---- MODULE Spec2Model ----
(***************************************************************************)
(* The extensions pipeline of the documentation site:                      *)
(*   - the Docusaurus plugin docusaurus-plugin-extensions (loadContent,    *)
(*     contentLoaded, postBuild) and the catalog reader fetchMCPServers;   *)
(*   - the client-side DetailPage component in its two variants (id taken  *)
(*     from the last path segment, id taken from the ?id= parameter) and   *)
(*     the three ExtensionDetail views;                                    *)
(*   - the generateDetailPages script, which fetches the catalog over      *)
(*     https and writes one page per descriptor;                           *)
(*   - the retry loop of the workflow step "Make default Goose App", in    *)
(*     its bash and pwsh variants.                                         *)
(*                                                                         *)
(* Text is a sequence of tokens, so that splitting a pathname on "/" and   *)
(* parsing a query string are computed the way the code computes them.     *)
(* A descriptor is a record holding exactly the keys its JSON object has.  *)
(***************************************************************************)
EXTENDS Integers, Sequences, FiniteSets, TLC

VARIABLES
    source,      \* static/servers.json as it is on disk right now
    content,     \* what loadContent returned to Docusaurus
    phase,       \* how far the build has got
    clStatus,    \* the promise returned by contentLoaded
    units,       \* one async callback of extensions.map per descriptor
    dataFiles,   \* files written by createData: name -> text
    routes,      \* the routing table filled by addRoute
    extDirExists,\* whether <outDir>/extensions-data exists
    outFiles,    \* files under <outDir>/extensions-data: name -> text
    exports,     \* how many times postBuild has run
    writeError,  \* a writeFileSync call of the last run threw
    html,        \* what each statically rendered detail page shows: path -> elements
    variant,     \* which DetailPage is mounted: "path" or "query"
    served,      \* the collection the client-side fetchMCPServers resolves to
    location,    \* useLocation()
    server,      \* useState<MCPServer | null>
    loading,     \* useState(true)
    error,       \* useState<string | null>
    calls,       \* the loadServer() invocations started so far
    remote,      \* how the catalog endpoint answers an https.get
    scriptPc,    \* position of the generateDetailPages script
    detailDirExists, \* whether src/pages/extensions/detail exists
    pages,       \* files under src/pages/extensions/detail: name -> text
    pageWriteError, \* a writeFileSync call of the script threw
    shell,       \* which workflow runs "Make default Goose App": "bash" or "pwsh"
    attempt,     \* $attempt
    runs,        \* the results of the npm run bundle:default calls made so far
    stepPc       \* position of the step's script

buildVars == <<source, content, phase, clStatus, units, dataFiles, routes,
               extDirExists, outFiles, exports, writeError, html>>
pageVars == <<variant, served, location, server, loading, error, calls>>
scriptVars == <<remote, scriptPc, detailDirExists, pages, pageWriteError>>
stepVars == <<shell, attempt, runs, stepPc>>
vars == <<buildVars, pageVars, scriptVars, stepVars>>

(***************************************************************************)
(* Bounds                                                                  *)
(***************************************************************************)
MaxCatalog == 2
MaxNav == 2
MaxExports == 2

(***************************************************************************)
(* Descriptors and catalogs                                                *)
(***************************************************************************)
ExtA ==
    [id |-> <<"a">>, name |-> <<"Alpha">>, description |-> <<"A">>,
     link |-> <<"https://x/a">>, is_builtin |-> <<"false">>]

ExtB ==
    [id |-> <<"b">>, name |-> <<"Beta">>, description |-> <<"B">>,
     link |-> <<"https://x/b">>, is_builtin |-> <<"true">>]

\* a second descriptor carrying the id of ExtA
ExtA2 ==
    [id |-> <<"a">>, name |-> <<"Alpha2">>, description |-> <<"A2">>,
     link |-> <<"https://x/a2">>, is_builtin |-> <<"false">>]

\* a descriptor whose JSON object has no name
ExtNoName ==
    [id |-> <<"c">>, description |-> <<"C">>,
     link |-> <<"https://x/c">>, is_builtin |-> <<"false">>]

\* a descriptor whose id is not a single URL path segment
ExtSlash ==
    [id |-> <<"a", "/", "b">>, name |-> <<"Slash">>, description |-> <<"S">>,
     link |-> <<"https://x/s">>, is_builtin |-> <<"false">>]

\* descriptors as the upstream catalog lists them: no id, no is_builtin, no
\* githubStars, no environmentVariables
ExtRawAlpha ==
    [name |-> <<"Alpha">>, description |-> <<"A">>, link |-> <<"https://x/a">>]

ExtRawBeta ==
    [name |-> <<"Beta">>, description |-> <<"B">>, link |-> <<"https://x/b">>]

\* a built-in extension whose descriptor carries a command
ExtBuiltinCmd ==
    [id |-> <<"g">>, name |-> <<"Gamma">>, description |-> <<"G">>,
     command |-> <<"npx", " ", "g">>, is_builtin |-> <<"true">>,
     link |-> <<"https://x/g">>, githubStars |-> <<"5">>]

SeqsUpTo(S, n) == UNION {[1..k -> S] : k \in 0..n}

\* the catalogs static/servers.json may hold during a build
Catalogs == SeqsUpTo({ExtA, ExtB, ExtA2, ExtNoName}, MaxCatalog)

\* the catalogs the deployed site may serve to the browser
ServedCatalogs == SeqsUpTo({ExtA, ExtB, ExtA2, ExtSlash}, MaxCatalog)

\* catalogs of upstream descriptors
RawCatalogs == SeqsUpTo({ExtRawAlpha, ExtRawBeta, ExtBuiltinCmd}, MaxCatalog)

Unreadable == [readable |-> FALSE, data |-> <<>>]

\* the endpoint answers with a catalog as its body
Reachable == [kind |-> "ok", data |-> <<ExtA, ExtB>>]

\* the request emits 'error'
TransportError == [kind |-> "error", data |-> <<>>]

\* the body is not valid JSON
InvalidJson == [kind |-> "garbage", data |-> <<>>]

Remotes == {[kind |-> "ok", data |-> c] : c \in Catalogs} \cup {TransportError, InvalidJson}

\* static/servers.json as the script's working tree may have it
LocalSnapshots == {Unreadable, [readable |-> TRUE, data |-> <<ExtB>>]}

Sources == {[readable |-> TRUE, data |-> c] : c \in Catalogs} \cup {Unreadable}

Has(d, k) == k \in DOMAIN d

\* `${extension.id}` : a missing property prints as "undefined"
IdText(d) == IF Has(d, "id") THEN d.id ELSE <<"undefined">>

KeyOrder ==
    <<"id", "name", "description", "command", "is_builtin", "link", "githubStars",
      "environmentVariables">>

\* JSON.stringify(extension): the object's own keys with their values, in order
Stringify(d) ==
    LET present == SelectSeq(KeyOrder, LAMBDA k : Has(d, k))
    IN  [i \in 1..Len(present) |-> <<present[i], d[present[i]]>>]

\* a reader whose catch returns [] in place of rethrowing
FetchOrEmpty == [ok |-> TRUE, value |-> IF source.readable THEN source.data ELSE <<>>]

\* fetchMCPServers(): JSON.parse(fs.readFileSync(static/servers.json)), rethrown on error
fetchMCPServers ==
    IF source.readable
    THEN [ok |-> TRUE, value |-> source.data]
    ELSE [ok |-> FALSE, value |-> <<>>]

Put(files, name, text) ==
    [n \in DOMAIN files \cup {name} |-> IF n = name THEN text ELSE files[n]]

NoFiles == [n \in {} |-> <<>>]

DataName(d) == <<"extension-">> \o IdText(d) \o <<".json">>

DetailPrefix == <<"/", "extensions", "/", "detail", "/">>

RoutePath(d) == DetailPrefix \o IdText(d)

FileName(d) == IdText(d) \o <<".json">>

\* the argument of addRoute
RouteOf(d) ==
    [path |-> RoutePath(d),
     component |-> "@site/src/components/extension-detail.tsx",
     extension |-> DataName(d)]

(***************************************************************************)
(* The build                                                               *)
(***************************************************************************)
InitBuild ==
    /\ source \in Sources
    /\ content = <<>>
    /\ phase = "init"
    /\ clStatus = "idle"
    /\ units = <<>>
    /\ dataFiles = NoFiles
    /\ routes = <<>>
    /\ extDirExists = FALSE
    /\ outFiles = NoFiles
    /\ variant = "path"
    /\ served = <<>>
    /\ location = [pathname |-> <<>>, search |-> <<>>]
    /\ server = [null |-> TRUE]
    /\ loading = TRUE
    /\ error = "null"
    /\ calls = <<>>
    /\ exports = 0
    /\ writeError = FALSE
    /\ html = NoFiles
    /\ remote = Reachable
    /\ scriptPc = "off"
    /\ detailDirExists = FALSE
    /\ pages = NoFiles
    /\ pageWriteError = FALSE
    /\ shell = "bash"
    /\ attempt = 0
    /\ runs = <<>>
    /\ stepPc = "off"

\* a build whose static/servers.json is a copy of the upstream catalog
InitRaw ==
    /\ source \in {[readable |-> TRUE, data |-> c] : c \in RawCatalogs}
    /\ content = <<>>
    /\ phase = "init"
    /\ clStatus = "idle"
    /\ units = <<>>
    /\ dataFiles = NoFiles
    /\ routes = <<>>
    /\ extDirExists = FALSE
    /\ outFiles = NoFiles
    /\ variant = "path"
    /\ served = <<>>
    /\ location = [pathname |-> <<>>, search |-> <<>>]
    /\ server = [null |-> TRUE]
    /\ loading = TRUE
    /\ error = "null"
    /\ calls = <<>>
    /\ exports = 0
    /\ writeError = FALSE
    /\ html = NoFiles
    /\ remote = Reachable
    /\ scriptPc = "off"
    /\ detailDirExists = FALSE
    /\ pages = NoFiles
    /\ pageWriteError = FALSE
    /\ shell = "bash"
    /\ attempt = 0
    /\ runs = <<>>
    /\ stepPc = "off"

\* static/servers.json is edited or replaced while the build is running
ChangeSource ==
    /\ phase \in {"loaded", "routes", "rendered"}
    /\ source' \in Sources \ {source}
    /\ UNCHANGED <<content, phase, clStatus, units, dataFiles, routes,
                   extDirExists, outFiles, exports, writeError, html>>
    /\ UNCHANGED <<pageVars, scriptVars, stepVars>>

loadContent ==
    /\ phase = "init"
    /\ LET r == fetchMCPServers
       IN  IF r.ok
           THEN content' = r.value /\ phase' = "loaded"
           ELSE content' = content /\ phase' = "failed"
    /\ UNCHANGED <<source, clStatus, units, dataFiles, routes, extDirExists, outFiles,
                   exports, writeError, html>>
    /\ UNCHANGED <<pageVars, scriptVars, stepVars>>

\* contentLoaded up to its await: extensions.map starts one callback per
\* descriptor, each suspended in createData; Promise.all of no promises resolves
contentLoadedStart ==
    /\ phase = "loaded"
    /\ clStatus = "idle"
    /\ units' = [i \in 1..Len(content) |-> "pending"]
    /\ clStatus' = IF Len(content) = 0 THEN "resolved" ELSE "pending"
    /\ phase' = IF Len(content) = 0 THEN "routes" ELSE phase
    /\ UNCHANGED <<source, content, dataFiles, routes, extDirExists, outFiles,
                   exports, writeError, html>>
    /\ UNCHANGED <<pageVars, scriptVars, stepVars>>

\* Promise.race in place of Promise.all
AnyDone(u) == \E i \in 1..Len(u) : u[i] = "done"

\* Promise.all(...): every callback has returned
AllDone(u) == \A i \in 1..Len(u) : u[i] = "done"

\* createData of unit i resolves: the data file is written, the callback goes on
\* to addRoute and returns; Promise.all resolves with the last of them
createDataResolve(i) ==
    /\ i \in 1..Len(units)
    /\ units[i] = "pending"
    /\ dataFiles' = Put(dataFiles, DataName(content[i]), Stringify(content[i]))
    /\ routes' = Append(routes, RouteOf(content[i]))
    /\ units' = [units EXCEPT ![i] = "done"]
    /\ IF clStatus = "pending" /\ AllDone(units')
       THEN clStatus' = "resolved" /\ phase' = "routes"
       ELSE clStatus' = clStatus /\ phase' = phase
    /\ UNCHANGED <<source, content, extDirExists, outFiles, exports, writeError, html>>
    /\ UNCHANGED <<pageVars, scriptVars, stepVars>>

\* createData of unit i rejects: the callback rejects and Promise.all, hence
\* contentLoaded, rejects with the first such error
createDataReject(i) ==
    /\ i \in 1..Len(units)
    /\ units[i] = "pending"
    /\ units' = [units EXCEPT ![i] = "failed"]
    /\ IF clStatus = "pending"
       THEN clStatus' = "rejected" /\ phase' = "failed"
       ELSE clStatus' = clStatus /\ phase' = phase
    /\ UNCHANGED <<source, content, dataFiles, routes, extDirExists, outFiles,
                   exports, writeError, html>>
    /\ UNCHANGED <<pageVars, scriptVars, stepVars>>

RECURSIVE WriteAllByPosition(_, _, _)
\* files named after the position of the descriptor in the catalog
WriteAllByPosition(files, exts, k) ==
    IF k = 0 THEN files
    ELSE Put(WriteAllByPosition(files, exts, k - 1), <<ToString(k), ".json">>,
             Stringify(exts[k]))

RECURSIVE WriteAll(_, _, _)
\* extensions.forEach(writeFileSync) over the first k descriptors
WriteAll(files, exts, k) ==
    IF k = 0 THEN files
    ELSE Put(WriteAll(files, exts, k - 1), FileName(exts[k]), Stringify(exts[k]))

\* the module of a data file: JSON.parse of its text
ParseJson(text) ==
    [k \in {text[i][1] : i \in 1..Len(text)} |->
        (CHOOSE pr \in {text[i] : i \in 1..Len(text)} : pr[1] = k)[2]]

\* a property used as a condition: absent, false and "" are falsy
Truthy(d, k) == Has(d, k) /\ d[k] \notin {<<"false">>, <<>>}

\* ExtensionDetail(props) of the route component: the Built-in badge, the
\* settings hint or the install link, and the Installation Command block
ExtensionDetailStatic(extension) ==
    (IF Truthy(extension, "is_builtin") THEN {"built-in badge"} ELSE {})
    \cup (IF Truthy(extension, "is_builtin") THEN {"settings hint"} ELSE {"install link"})
    \cup (IF Truthy(extension, "command") THEN {"installation command"} ELSE {})

\* ExtensionDetail({server}) next to the path variant of DetailPage
ExtensionDetailPath(srv) ==
    (IF Truthy(srv, "is_builtin") THEN {"built-in badge"} ELSE {})
    \cup (IF ~Truthy(srv, "is_builtin") THEN {"installation command", "install link"} ELSE {})
    \cup (IF Truthy(srv, "is_builtin") THEN {"built-in section"} ELSE {})

\* ExtensionDetail({server}) next to the query variant of DetailPage
ExtensionDetailQuery(srv) ==
    (IF Truthy(srv, "is_builtin") THEN {"built-in badge"} ELSE {})
    \cup (IF Truthy(srv, "is_builtin") THEN {"settings hint"} ELSE {"installation command"})
    \cup (IF Truthy(srv, "is_builtin") THEN {"built-in badge"} ELSE {"install link"})

\* the first route registered for a path is the one that serves it
RouteFor(path) ==
    routes[CHOOSE i \in 1..Len(routes) :
              /\ routes[i].path = path
              /\ \A j \in 1..(i - 1) : routes[j].path # path]

\* the static site generation between contentLoaded and postBuild: every
\* registered detail route is rendered with its data module as props.extension
renderPages ==
    /\ phase = "routes"
    /\ phase' = "rendered"
    /\ html' = [p \in {routes[i].path : i \in 1..Len(routes)} |->
                  ExtensionDetailStatic(ParseJson(dataFiles[RouteFor(p).extension]))]
    /\ UNCHANGED <<source, content, clStatus, units, dataFiles, routes, extDirExists,
                   outFiles, exports, writeError>>
    /\ UNCHANGED <<pageVars, scriptVars, stepVars>>

\* fs.mkdirSync(dir) without the recursive option: EEXIST when dir exists
mkdirSync(exists) == [ok |-> ~exists, exists |-> TRUE]

\* mkdirSync without the existsSync test
MkdirUnguarded(exists) == mkdirSync(exists)

\* if (!fs.existsSync(extensionsDir)) { fs.mkdirSync(extensionsDir); }
EnsureDir(exists) ==
    IF ~exists THEN mkdirSync(exists) ELSE [ok |-> TRUE, exists |-> exists]

\* postBuild: the catalog is fetched again, the directory is created when absent,
\* and the files are written in order; the writeFileSync after the k-th may
\* throw.  A later run (a second plugin instance or locale) finds the output of
\* the earlier one.
postBuild(k) ==
    /\ phase \in {"rendered", "done"}
    /\ exports < MaxExports
    /\ exports' = exports + 1
    /\ LET r == fetchMCPServers
           dir == EnsureDir(extDirExists)
       IN  IF ~r.ok \/ ~dir.ok
           THEN /\ phase' = "failed"
                /\ writeError' = FALSE
                /\ UNCHANGED <<extDirExists, outFiles>>
           ELSE /\ k \in 0..Len(r.value)
                /\ extDirExists' = dir.exists
                /\ outFiles' = WriteAll(outFiles, r.value, k)
                /\ writeError' = (k < Len(r.value))
                /\ phase' = IF k = Len(r.value) THEN "done" ELSE "failed"
    /\ UNCHANGED <<source, content, clStatus, units, dataFiles, routes, html>>
    /\ UNCHANGED <<pageVars, scriptVars, stepVars>>

NextBuild ==
    \/ ChangeSource
    \/ loadContent
    \/ contentLoadedStart
    \/ \E i \in 1..MaxCatalog : createDataResolve(i)
    \/ \E i \in 1..MaxCatalog : createDataReject(i)
    \/ renderPages
    \/ \E k \in 0..MaxCatalog : postBuild(k)

(***************************************************************************)
(* The generateDetailPages script                                          *)
(***************************************************************************)
\* fetchMCPServers() of the script: https.get, the body parsed with JSON.parse;
\* 'error' and a parse failure reject
fetchMCPServersHttps ==
    IF remote.kind = "ok"
    THEN [ok |-> TRUE, value |-> remote.data]
    ELSE [ok |-> FALSE, value |-> <<>>]

DetailTemplate == <<"_detail.tsx">>

PageName(d) == IdText(d) \o <<".tsx">>

RECURSIVE WritePages(_, _, _)
\* for (const server of servers) fs.writeFileSync(pagePath, detailTemplate)
WritePages(files, servers, k) ==
    IF k = 0 THEN files
    ELSE Put(WritePages(files, servers, k - 1), PageName(servers[k]), DetailTemplate)

InitScript ==
    /\ remote \in Remotes
    /\ source \in LocalSnapshots
    /\ scriptPc = "start"
    /\ detailDirExists \in BOOLEAN
    /\ pages = NoFiles
    /\ pageWriteError = FALSE
    /\ content = <<>>
    /\ phase = "off"
    /\ clStatus = "idle"
    /\ units = <<>>
    /\ dataFiles = NoFiles
    /\ routes = <<>>
    /\ extDirExists = FALSE
    /\ outFiles = NoFiles
    /\ exports = 0
    /\ writeError = FALSE
    /\ html = NoFiles
    /\ variant = "path"
    /\ served = <<>>
    /\ location = [pathname |-> <<>>, search |-> <<>>]
    /\ server = [null |-> TRUE]
    /\ loading = TRUE
    /\ error = "null"
    /\ calls = <<>>
    /\ shell = "bash"
    /\ attempt = 0
    /\ runs = <<>>
    /\ stepPc = "off"

\* generateDetailPages() up to its await: the request is sent
generateDetailPagesStart ==
    /\ scriptPc = "start"
    /\ scriptPc' = "fetching"
    /\ UNCHANGED <<remote, detailDirExists, pages, pageWriteError>>
    /\ UNCHANGED <<buildVars, pageVars, stepVars>>

\* the request settles and the rest of generateDetailPages runs: the template
\* is read (readable or not), the directory is created when absent, the pages
\* are written in order and the writeFileSync after the k-th may throw; any
\* error ends in process.exit(1)
generateDetailPagesResume(readable, k) ==
    /\ scriptPc = "fetching"
    /\ LET r == fetchMCPServersHttps
       IN  IF ~r.ok \/ ~readable
           THEN /\ scriptPc' = "exit1"
                /\ UNCHANGED <<detailDirExists, pages, pageWriteError>>
           ELSE /\ k \in 0..Len(r.value)
                /\ detailDirExists' = TRUE
                /\ pages' = WritePages(pages, r.value, k)
                /\ pageWriteError' = (k < Len(r.value))
                /\ scriptPc' = IF k = Len(r.value) THEN "exit0" ELSE "exit1"
    /\ UNCHANGED remote
    /\ UNCHANGED <<buildVars, pageVars, stepVars>>

NextScript ==
    \/ generateDetailPagesStart
    \/ \E readable \in BOOLEAN, k \in 0..MaxCatalog : generateDetailPagesResume(readable, k)

(***************************************************************************)
(* The workflow step "Make default Goose App"                              *)
(***************************************************************************)
max_attempts == 2

\* how a run of npm run bundle:default can end: its exit code and whether it
\* wrote anything to its standard output
BundleResults == [exit : {0, 1, 2}, output : BOOLEAN]

\* whether the loop is left after a run: `npm run bundle:default && break` tests
\* the exit code; `if (npm run bundle:default) { break }` tests the output
Breaks(sh, r) == IF sh = "bash" THEN r.exit = 0 ELSE r.output

ExitPc(code) == IF code = 0 THEN "exit0" ELSE IF code = 1 THEN "exit1" ELSE "exit2"

\* the status the step ends with when its script runs to the end: bash gives
\* the status of the closing if, pwsh that of the last native command
FallThrough(sh, rs) ==
    IF sh = "bash" \/ rs = <<>> THEN 0 ELSE rs[Len(rs)].exit

InitStep ==
    /\ remote = Reachable
    /\ source = Unreadable
    /\ scriptPc = "off"
    /\ detailDirExists = FALSE
    /\ pages = NoFiles
    /\ pageWriteError = FALSE
    /\ content = <<>>
    /\ phase = "off"
    /\ clStatus = "idle"
    /\ units = <<>>
    /\ dataFiles = NoFiles
    /\ routes = <<>>
    /\ extDirExists = FALSE
    /\ outFiles = NoFiles
    /\ exports = 0
    /\ writeError = FALSE
    /\ html = NoFiles
    /\ variant = "path"
    /\ served = <<>>
    /\ location = [pathname |-> <<>>, search |-> <<>>]
    /\ server = [null |-> TRUE]
    /\ loading = TRUE
    /\ error = "null"
    /\ calls = <<>>
    /\ shell \in {"bash", "pwsh"}
    /\ attempt = 0
    /\ runs = <<>>
    /\ stepPc = "start"

\* attempt=0; max_attempts=2
stepBegin ==
    /\ stepPc = "start"
    /\ attempt' = 0
    /\ stepPc' = "test"
    /\ UNCHANGED <<shell, runs>>
    /\ UNCHANGED <<buildVars, pageVars, scriptVars>>

\* until [ $attempt -ge $max_attempts ] / while ($attempt -lt $max_attempts)
loopTest ==
    /\ stepPc = "test"
    /\ stepPc' = IF attempt < max_attempts THEN "run" ELSE "check"
    /\ UNCHANGED <<shell, attempt, runs>>
    /\ UNCHANGED <<buildVars, pageVars, scriptVars>>

\* npm run bundle:default ends with result r, and the loop is left or goes on
bundleRun(r) ==
    /\ stepPc = "run"
    /\ runs' = Append(runs, r)
    /\ stepPc' = IF Breaks(shell, r) THEN "check" ELSE "retry"
    /\ UNCHANGED <<shell, attempt>>
    /\ UNCHANGED <<buildVars, pageVars, scriptVars>>

\* attempt=$((attempt + 1)); echo; sleep 5
retryDelay ==
    /\ stepPc = "retry"
    /\ attempt' = attempt + 1
    /\ stepPc' = "test"
    /\ UNCHANGED <<shell, runs>>
    /\ UNCHANGED <<buildVars, pageVars, scriptVars>>

\* if [ $attempt -ge $max_attempts ]; then ... exit 1; fi
finalCheck ==
    /\ stepPc = "check"
    /\ stepPc' = IF attempt >= max_attempts THEN "exit1"
                 ELSE ExitPc(FallThrough(shell, runs))
    /\ UNCHANGED <<shell, attempt, runs>>
    /\ UNCHANGED <<buildVars, pageVars, scriptVars>>

NextStep ==
    \/ stepBegin
    \/ loopTest
    \/ \E r \in BundleResults : bundleRun(r)
    \/ retryDelay
    \/ finalCheck

(***************************************************************************)
(* DetailPage                                                              *)
(***************************************************************************)
NoServer == [null |-> TRUE]

NullError == "null"

Max(S) == CHOOSE m \in S : \A x \in S : x <= m

\* pathParts[pathParts.length - 1] of location.pathname.split('/')
LastSegment(pathname) ==
    LET slashes == {i \in 1..Len(pathname) : pathname[i] = "/"}
    IN  IF slashes = {} THEN pathname
        ELSE SubSeq(pathname, Max(slashes) + 1, Len(pathname))

RECURSIVE SplitOn(_, _)
\* String.prototype.split on a one-character separator
SplitOn(s, sep) ==
    LET hits == {i \in 1..Len(s) : s[i] = sep}
    IN  IF hits = {} THEN <<s>>
        ELSE LET m == Max(hits)
             IN  Append(SplitOn(SubSeq(s, 1, m - 1), sep), SubSeq(s, m + 1, Len(s)))

\* application/x-www-form-urlencoded decoding of "+"
PlusDecode(t) == [i \in 1..Len(t) |-> IF t[i] = "+" THEN " " ELSE t[i]]

Min(S) == CHOOSE m \in S : \A x \in S : m <= x

\* one name=value pair of a query string, split at its first "="
ParsePair(p) ==
    LET eqs == {i \in 1..Len(p) : p[i] = "="}
    IN  IF eqs = {} THEN [name |-> PlusDecode(p), value |-> <<>>]
        ELSE [name |-> PlusDecode(SubSeq(p, 1, Min(eqs) - 1)),
              value |-> PlusDecode(SubSeq(p, Min(eqs) + 1, Len(p)))]

\* new URLSearchParams(search).get(key): the first pair of that name, or null
SearchParamsGet(search, key) ==
    LET body == IF Len(search) > 0 /\ search[1] = "?" THEN Tail(search) ELSE search
        parts == SelectSeq(SplitOn(body, "&"), LAMBDA p : Len(p) > 0)
        pairs == [i \in 1..Len(parts) |-> ParsePair(parts[i])]
        named == SelectSeq(pairs, LAMBDA q : q.name = key)
    IN  IF Len(named) = 0 THEN [present |-> FALSE, value |-> <<>>]
        ELSE [present |-> TRUE, value |-> named[1].value]

\* servers.find((s) => s.id === id): the first match, or undefined
Find(servers, id) ==
    LET hits == {i \in 1..Len(servers) : Has(servers[i], "id") /\ servers[i].id = id}
    IN  IF hits = {} THEN [found |-> FALSE, value |-> NoServer]
        ELSE [found |-> TRUE, value |-> servers[Min(hits)]]

NotFoundMsg(v) == IF v = "path" THEN "Server not found" ELSE "Extension not found"

FailedMsg(v) ==
    IF v = "path" THEN "Failed to load server details"
    ELSE "Failed to load extension details"

NoIdMsg == "No extension ID provided"

QueryPage == <<"/", "extensions", "/", "detail">>

IdParam == <<"?", "id", "=">>

\* the ids a navigation may ask for
NavKeys == {<<"a">>, <<"b">>, <<"a", "/", "b">>, <<"z">>, <<>>}

PathLocation(k) == [pathname |-> DetailPrefix \o k, search |-> <<>>]

QueryLocation(k) == [pathname |-> QueryPage, search |-> IdParam \o k]

PathLocations == {PathLocation(k) : k \in NavKeys}

QueryLocations ==
    {QueryLocation(k) : k \in NavKeys} \cup {[pathname |-> QueryPage, search |-> <<>>]}

\* the locations the router can deliver to the mounted variant
Locations(v) == IF v = "path" THEN PathLocations ELSE QueryLocations

\* the id loadServer looks up, null when the query variant finds none (!id)
LookupKey(v, loc) ==
    IF v = "path" THEN [present |-> TRUE, value |-> LastSegment(loc.pathname)]
    ELSE LET g == SearchParamsGet(loc.search, <<"id">>)
         IN  IF g.present /\ g.value # <<>> THEN g
             ELSE [present |-> FALSE, value |-> <<>>]

\* loadServer with the missing match thrown into the catch block
SettledThrowing(v, loc, ok, servers, st) ==
    IF ~ok THEN [server |-> st.server, error |-> FailedMsg(v)]
    ELSE LET key == LookupKey(v, loc)
         IN  IF ~key.present THEN [server |-> st.server, error |-> NoIdMsg]
             ELSE LET f == Find(servers, key.value)
                  IN  IF f.found THEN [server |-> f.value, error |-> st.error]
                      ELSE [server |-> st.server, error |-> FailedMsg(v)]

\* the state loadServer leaves behind once its fetch has settled, from the state
\* st = [server, error] it finds; loading is cleared by the finally block
Settled(v, loc, ok, servers, st) ==
    IF ~ok THEN [server |-> st.server, error |-> FailedMsg(v)]
    ELSE LET key == LookupKey(v, loc)
         IN  IF ~key.present THEN [server |-> st.server, error |-> NoIdMsg]
             ELSE LET f == Find(servers, key.value)
                  IN  IF f.found THEN [server |-> f.value, error |-> st.error]
                      ELSE [server |-> st.server, error |-> NotFoundMsg(v)]

\* what DetailPage returns for a state
Render(l, e, s) ==
    IF l THEN [view |-> "loading", text |-> NullError, server |-> NoServer]
    ELSE IF e # NullError \/ s = NoServer
         THEN [view |-> "message", server |-> NoServer,
               text |-> IF e # NullError THEN e ELSE NotFoundMsg(variant)]
         ELSE [view |-> "detail", text |-> NullError, server |-> s]

\* the synchronous head of loadServer, run by the effect
StartLoad(loc) ==
    /\ loading' = TRUE
    /\ error' = NullError
    /\ calls' = Append(calls, [location |-> loc, status |-> "pending"])

\* DetailPage has been mounted on some location and its effect has run once;
\* no build runs while the site is browsed
InitPage ==
    /\ variant \in {"path", "query"}
    /\ served \in ServedCatalogs
    /\ location \in Locations(variant)
    /\ server = NoServer
    /\ loading = TRUE
    /\ error = NullError
    /\ calls = <<[location |-> location, status |-> "pending"]>>
    /\ source = Unreadable
    /\ content = <<>>
    /\ phase = "off"
    /\ clStatus = "idle"
    /\ units = <<>>
    /\ dataFiles = NoFiles
    /\ routes = <<>>
    /\ extDirExists = FALSE
    /\ outFiles = NoFiles
    /\ exports = 0
    /\ writeError = FALSE
    /\ html = NoFiles
    /\ remote = Reachable
    /\ scriptPc = "off"
    /\ detailDirExists = FALSE
    /\ pages = NoFiles
    /\ pageWriteError = FALSE
    /\ shell = "bash"
    /\ attempt = 0
    /\ runs = <<>>
    /\ stepPc = "off"

\* the router delivers a new location and the effect runs loadServer again
Navigate(loc) ==
    /\ Len(calls) < MaxNav
    /\ loc \in Locations(variant)
    /\ location' = loc
    /\ StartLoad(loc)
    /\ UNCHANGED <<variant, served, server>>
    /\ UNCHANGED <<buildVars, scriptVars, stepVars>>

\* the fetch of call i settles and the rest of its loadServer runs
Settle(i, ok) ==
    /\ i \in 1..Len(calls)
    /\ calls[i].status = "pending"
    /\ LET after == Settled(variant, calls[i].location, ok, served,
                            [server |-> server, error |-> error])
       IN  /\ server' = after.server
           /\ error' = after.error
    /\ loading' = FALSE
    /\ calls' = [calls EXCEPT ![i].status = IF ok THEN "fulfilled" ELSE "rejected"]
    /\ UNCHANGED <<variant, served, location>>
    /\ UNCHANGED <<buildVars, scriptVars, stepVars>>

NoPending == \A i \in 1..Len(calls) : calls[i].status # "pending"

NextPage ==
    \/ \E loc \in PathLocations \cup QueryLocations : Navigate(loc)
    \/ \E i \in 1..MaxNav, ok \in BOOLEAN : Settle(i, ok)

\* a navigation that finds the previous resolution finished
NavigateIdle(loc) == NoPending /\ Navigate(loc)

NextSeq ==
    \/ \E loc \in PathLocations \cup QueryLocations : NavigateIdle(loc)
    \/ \E i \in 1..MaxNav, ok \in BOOLEAN : Settle(i, ok)

(***************************************************************************)
(* Properties                                                              *)
(***************************************************************************)
Last == calls[Len(calls)]

\* the state a resolution of call c alone ends in, starting from the empty state
AloneState(c) ==
    Settled(variant, c.location, c.status = "fulfilled", served,
            [server |-> NoServer, error |-> NullError])

Shown == Render(loading, error, server)

\* C1: a navigation that supersedes an in-flight one decides what is displayed:
\* once every fetch has settled the page shows what the latest navigation alone
\* would show, and loading is never cleared while the latest fetch is pending.
C1_StaleFetchIgnored ==
    /\ (Len(calls) >= 2 /\ NoPending) =>
           Shown = Render(FALSE, AloneState(Last).error, AloneState(Last).server)
    /\ (Len(calls) >= 2 /\ Last.status = "pending") => loading

DistinctIds(c) ==
    \A i, j \in 1..Len(c) : i # j => IdText(c[i]) # IdText(c[j])

IdOfPath(path) == SubSeq(path, Len(DetailPrefix) + 1, Len(path))

IdOfFile(name) == SubSeq(name, 1, Len(name) - 1)

RoutedIds == {IdOfPath(routes[i].path) : i \in 1..Len(routes)}

FileIds == {IdOfFile(n) : n \in DOMAIN outFiles}

\* C2: a finished build exported the snapshot it made its routes from: the ids
\* with a detail route are the ids with a file, and each file holds the payload
\* bound to the route of its id (stated for snapshots with distinct ids).
C2_OneSnapshot ==
    (phase = "done" /\ DistinctIds(content)) =>
        /\ RoutedIds = FileIds
        /\ \A i \in 1..Len(routes) :
               LET f == IdOfPath(routes[i].path) \o <<".json">>
               IN  f \in DOMAIN outFiles /\ outFiles[f] = dataFiles[routes[i].extension]

ListingPath == <<"/", "extensions">>

DetailRoutes == {i \in 1..Len(routes) : routes[i].path # ListingPath}

ListingRoutes == {i \in 1..Len(routes) : routes[i].path = ListingPath}

\* C3: a finished build over N descriptors with distinct ids has N detail routes,
\* one listing route and N exported files, also for N = 0.
C3_RouteAndFileCount ==
    (phase = "done" /\ DistinctIds(content)) =>
        /\ Cardinality(DetailRoutes) = Len(content)
        /\ \A i \in 1..Len(content) : \E j \in DetailRoutes : routes[j] = RouteOf(content[i])
        /\ Cardinality(ListingRoutes) = 1
        /\ Cardinality(DOMAIN outFiles) = Len(content)

Required == {"name", "description", "link"}

WellFormed(d) == \A k \in Required : Has(d, k)

\* C4: a build whose snapshot holds two (otherwise well-formed) descriptors with
\* the same id does not finish successfully.
C4_DuplicateIdFails ==
    (/\ \E i, j \in 1..Len(content) :
            i < j /\ IdText(content[i]) = IdText(content[j]) /\ content[i] # content[j]
     /\ \A i \in 1..Len(content) : WellFormed(content[i])) =>
        phase # "done"

\* C5: when a descriptor of the snapshot lacks name, description or link, no
\* route is registered and no file is exported for any descriptor.
C5_MalformedFailsBatch ==
    (\E i \in 1..Len(content) : ~WellFormed(content[i])) =>
        (routes = <<>> /\ outFiles = NoFiles)

\* the call whose fetch settles in this step, when it is the latest call and
\* finds the state as its own loadServer left it
SettlesAlone(i) ==
    /\ i = Len(calls)
    /\ calls[i].status = "pending"
    /\ calls'[i].status # "pending"
    /\ loading
    /\ error = NullError

FirstWithId(servers, id) ==
    servers[Min({i \in 1..Len(servers) : Has(servers[i], "id") /\ servers[i].id = id})]

HasId(servers, id) ==
    \E i \in 1..Len(servers) : Has(servers[i], "id") /\ servers[i].id = id

\* C6: one resolution with a fetched collection shows the descriptor whose id is
\* the lookup key; without such a descriptor it ends in a not-found message, and
\* a failed fetch ends in a different error state than any not-found outcome.
C6_SingleResolution ==
    [][\A i \in 1..MaxNav : (i <= Len(calls) /\ SettlesAlone(i)) =>
          LET key == LookupKey(variant, calls[i].location)
              shown == Render(loading', error', server')
          IN  /\ (calls'[i].status = "fulfilled" /\ key.present /\ HasId(served, key.value)) =>
                     /\ shown.view = "detail"
                     /\ shown.server = FirstWithId(served, key.value)
                     /\ error' = NullError
              /\ (calls'[i].status = "fulfilled" /\ ~(key.present /\ HasId(served, key.value))) =>
                     /\ shown.view = "message"
                     /\ shown.text \in {NotFoundMsg(variant), NoIdMsg}
                     /\ error' \in {NotFoundMsg(variant), NoIdMsg}
                     /\ error' # FailedMsg(variant)
              /\ calls'[i].status = "rejected" =>
                     /\ shown.view = "message"
                     /\ error' = FailedMsg(variant)
                     /\ error' \notin {NotFoundMsg(variant), NoIdMsg}
      ]_vars

\* a not-found outcome reached after an earlier navigation left its server behind
C6_Witness ==
    /\ NoPending
    /\ Len(calls) = 2
    /\ calls[1].status = "fulfilled"
    /\ Last.status = "fulfilled"
    /\ server # NoServer
    /\ error = NotFoundMsg(variant)

CurrentKey == LookupKey(variant, location)

Found ==
    /\ error = NullError
    /\ CurrentKey.present
    /\ HasId(served, CurrentKey.value)
    /\ server = FirstWithId(served, CurrentKey.value)

NotFound == error \in {NotFoundMsg(variant), NoIdMsg}

FetchFailed == error = FailedMsg(variant)

\* C7: once every started fetch has settled the page has left Loading, and
\* whenever the page is not loading it shows exactly one of Found (for the
\* current key), NotFound or FetchFailed.
C7_AttemptStateMachine ==
    /\ NoPending => ~loading
    /\ ~loading =>
           /\ Found \/ NotFound \/ FetchFailed
           /\ ~(Found /\ NotFound) /\ ~(Found /\ FetchFailed) /\ ~(NotFound /\ FetchFailed)

\* the id a location was built from: `/extensions/detail/${id}` or `?id=${id}`
NavId(v, loc) ==
    IF v = "path" THEN IdOfPath(loc.pathname)
    ELSE SubSeq(loc.search, Len(IdParam) + 1, Len(loc.search))

\* C8: a first resolution of the detail URL built from an id ends, in the path
\* form as in the query form, with the descriptor the build keyed by that id,
\* or with no descriptor when the collection has none of that id.
C8_SameLookupRule ==
    (Len(calls) = 1 /\ Last.status = "fulfilled" /\ (variant = "query" => location.search # <<>>)) =>
        LET k == NavId(variant, location)
        IN  server = IF HasId(served, k) THEN FirstWithId(served, k) ELSE NoServer

\* C9: contentLoaded resolves only with the route of every descriptor of the
\* collection registered, and never when the callback of a descriptor failed.
C9_AllRoutesBeforeSuccess ==
    /\ clStatus = "resolved" =>
           /\ Len(routes) = Len(content)
           /\ \A i \in 1..Len(content) : \E j \in 1..Len(routes) : routes[j] = RouteOf(content[i])
    /\ (\E i \in 1..Len(units) : units[i] = "failed") => clStatus = "rejected"

\* contentLoaded resolved with the routes registered in the reverse order
C9_Witness ==
    /\ clStatus = "resolved"
    /\ Len(content) = 2
    /\ content[1] # content[2]
    /\ routes = <<RouteOf(content[2]), RouteOf(content[1])>>

\* C10: once contentLoaded has settled no callback it started is still in flight.
C10_JoinPoint ==
    clStatus \in {"resolved", "rejected"} =>
        \A i \in 1..Len(units) : units[i] # "pending"

\* C11: a run of postBuild creates extensions-data when it is absent, and a run
\* that follows a successful one on the same catalog finds the directory, fails
\* only on a write error, and when it succeeds leaves the files, their contents
\* and their number as they were.
C11_ExportIdempotent ==
    [][exports' = exports + 1 =>
          /\ source.readable => extDirExists'
          /\ phase = "done" =>
                /\ phase' = "done" \/ writeError'
                /\ phase' = "done" =>
                      /\ outFiles' = outFiles
                      /\ Cardinality(DOMAIN outFiles') = Cardinality(DOMAIN outFiles)]_vars

\* postBuild has run twice with success and exported two files
C11_Witness ==
    /\ phase = "done"
    /\ exports = 2
    /\ extDirExists
    /\ Cardinality(DOMAIN outFiles) = 2

\* the catalog the source precedence selects: the local snapshot when present,
\* the endpoint's answer otherwise
Preferred ==
    IF source.readable THEN [ok |-> TRUE, value |-> source.data]
    ELSE IF remote.kind = "ok" THEN [ok |-> TRUE, value |-> remote.data]
    ELSE [ok |-> FALSE, value |-> <<>>]

\* C12: a fetch returns the local snapshot when it is present, without contacting
\* the endpoint, and the endpoint's catalog when the snapshot is absent: loadContent
\* hands Docusaurus the preferred catalog whenever there is one, and the script
\* sends its request only when there is no snapshot.
C12_SourcePrecedence ==
    [][/\ (phase = "init" /\ phase' # "init" /\ Preferred.ok) =>
              (phase' = "loaded" /\ content' = Preferred.value)
       /\ (scriptPc = "start" /\ scriptPc' = "fetching") => ~source.readable]_vars

\* the id the claim derives from a descriptor's stable fields
Slug(d) ==
    IF d.name = <<"Alpha">> THEN <<"alpha">>
    ELSE IF d.name = <<"Beta">> THEN <<"beta">>
    ELSE d.name

HasPair(text, k, v) == \E i \in 1..Len(text) : text[i] = <<k, v>>

Defaulted(text) ==
    /\ HasPair(text, "githubStars", <<"0">>)
    /\ HasPair(text, "environmentVariables", <<>>)
    /\ HasPair(text, "is_builtin", <<"false">>)

NoIdCatalog(c) ==
    /\ \A i \in 1..Len(c) : c[i] \in {ExtRawAlpha, ExtRawBeta}
    /\ \A i, j \in 1..Len(c) : c[i] = c[j] => i = j

\* C13: a build of a catalog whose descriptors carry no id gives every descriptor
\* its own derived id (alpha, beta) in its route and in its file, and every
\* payload carries githubStars 0, environmentVariables empty and is_builtin false.
C13_DerivedIdsAndDefaults ==
    (phase = "done" /\ content = source.data /\ NoIdCatalog(content)) =>
        /\ {routes[i].path : i \in 1..Len(routes)} =
               {DetailPrefix \o Slug(content[i]) : i \in 1..Len(content)}
        /\ DOMAIN outFiles = {Slug(content[i]) \o <<".json">> : i \in 1..Len(content)}
        /\ \A i \in 1..Len(routes) : Defaulted(dataFiles[routes[i].extension])
        /\ \A n \in DOMAIN outFiles : Defaulted(outFiles[n])

\* C14: a step that meets a catalog fetch failure or a write failure does not
\* complete: loadContent and postBuild reject and generateDetailPages exits 1,
\* and a failed fetch leaves no catalog, file or page behind as if it had been
\* an empty catalog.
C14_FailureAborts ==
    [][/\ (phase = "init" /\ phase' # "init" /\ ~source.readable) =>
              (phase' = "failed" /\ content' = content)
       /\ (exports' = exports + 1 /\ ~source.readable) =>
              (phase' = "failed" /\ outFiles' = outFiles /\ extDirExists' = extDirExists)
       /\ (exports' = exports + 1 /\ writeError') => phase' = "failed"
       /\ (scriptPc = "fetching" /\ scriptPc' # "fetching" /\ remote.kind # "ok") =>
              (scriptPc' = "exit1" /\ pages' = pages /\ detailDirExists' = detailDirExists)
       /\ (scriptPc = "fetching" /\ pageWriteError') => scriptPc' = "exit1"]_vars

\* postBuild found static/servers.json unreadable after the routes were made
C14_Witness ==
    /\ phase = "failed"
    /\ exports = 1
    /\ ~source.readable
    /\ Len(routes) > 0
    /\ outFiles = NoFiles

Count(c, d) == Cardinality({i \in 1..Len(c) : c[i] = d})

\* the catalogs that list the descriptors of c in some order
Reorderings(c) ==
    {p \in Catalogs : Len(p) = Len(c) /\ \A i \in 1..Len(c) : Count(p, c[i]) = Count(c, c[i])}

\* C15: what a build leaves behind for a catalog with pairwise distinct ids is
\* what it would leave behind for any permutation of that catalog: the same set
\* of detail routes, the same payload per id, the same exported files, and the
\* same generated pages.
C15_OrderIndependent ==
    /\ (clStatus = "resolved" /\ DistinctIds(content)) =>
          \A p \in Reorderings(content) :
              /\ {routes[i] : i \in 1..Len(routes)} = {RouteOf(p[i]) : i \in 1..Len(p)}
              /\ \A i \in 1..Len(p) : dataFiles[DataName(p[i])] = Stringify(p[i])
    /\ (phase = "done" /\ DistinctIds(source.data)) =>
          \A p \in Reorderings(source.data) : outFiles = WriteAll(NoFiles, p, Len(p))
    /\ (scriptPc = "exit0" /\ DistinctIds(remote.data)) =>
          \A p \in Reorderings(remote.data) : pages = WritePages(NoFiles, p, Len(p))

\* a build of the catalog [Beta, Alpha] has finished
C15_Witness ==
    /\ phase = "done"
    /\ content = <<ExtB, ExtA>>
    /\ source.data = content
    /\ Cardinality(DOMAIN outFiles) = 2
    /\ Len(routes) = 2

Affordances == {"install link", "installation command"}

ViewConforms(d, shown) ==
    IF Truthy(d, "is_builtin")
    THEN "built-in badge" \in shown /\ shown \cap Affordances = {}
    ELSE shown \cap Affordances # {} /\ "built-in badge" \notin shown

\* what the ExtensionDetail of the mounted DetailPage shows
ClientView ==
    IF variant = "path" THEN ExtensionDetailPath(Shown.server)
    ELSE ExtensionDetailQuery(Shown.server)

\* C16: every rendered detail view of a built-in descriptor shows the built-in
\* indicator and neither install link nor installation command, with or without
\* a command in the descriptor; every view of any other descriptor shows an
\* install affordance and no built-in indicator.
C16_BuiltinNoInstall ==
    /\ \A p \in DOMAIN html :
          ViewConforms(ParseJson(dataFiles[RouteFor(p).extension]), html[p])
    /\ Shown.view = "detail" => ViewConforms(Shown.server, ClientView)

Exited == stepPc \in {"exit0", "exit1", "exit2"}

BothFailed == Len(runs) = 2 /\ runs[1].exit # 0 /\ runs[2].exit # 0

\* C17: the step makes at most 2 runs of the bundle command, makes no run after
\* a successful one and a second run after a failed first one, ends with
\* success exactly when its last run succeeded, and ends with status 1 exactly
\* when it made two runs and both failed.
C17_RetryAtMostTwice ==
    /\ Len(runs) <= 2
    /\ \A i \in 1..(Len(runs) - 1) : runs[i].exit # 0
    /\ Exited =>
          /\ Len(runs) >= 1
          /\ runs[1].exit # 0 => Len(runs) = 2
          /\ runs[Len(runs)].exit = 0 <=> stepPc = "exit0"
          /\ stepPc # "exit0" <=> BothFailed
          /\ BothFailed => stepPc = "exit1"

(***************************************************************************)
(* Specifications                                                          *)
(***************************************************************************)
Init == InitBuild

Next == NextBuild

Spec == Init /\ [][Next]_vars

SpecPage == InitPage /\ [][NextPage]_vars

SpecSeq == InitPage /\ [][NextSeq]_vars

SpecRaw == InitRaw /\ [][NextBuild]_vars

SpecStep == InitStep /\ [][NextStep]_vars

SpecScript == InitScript /\ [][NextScript]_vars

\* one run of either build-time program
InitPrograms == InitBuild \/ InitScript

NextPrograms == NextBuild \/ NextScript

SpecPrograms == InitPrograms /\ [][NextPrograms]_vars

====
